---- MODULE Spec2Model ----
(***************************************************************************)
(* Model of the real-time relay (server/routes.ts, the WebSocket handlers  *)
(* over the `clients` Map) and of the threaded message store              *)
(* (DatabaseStorage, the message methods), of dhruvsahu007/slackai.        *)
(***************************************************************************)
EXTENDS Integers, Sequences, FiniteSets, TLC

\* ------------------------------------------------------------------ bounds
NumConns == 3
NumUsers == 2
NumChannels == 2
MaxMessages == 2    \* rows the store holds at most, requests of every shape
MaxThread == 3      \* rows the store holds at most, threaded channel messages

Conns == 1..NumConns
Users == 1..NumUsers
Channels == 1..NumChannels

\* JavaScript null / undefined / SQL NULL in an integer-valued field.
Null == 0 - 1

VARIABLES
    readyState,   \* ws.readyState of every WebSocket the server may accept
    clients,      \* the `clients` Map, as its entries in insertion order
    sent,         \* the frames written (clientWs.send) by the latest handler run
    caught,       \* whether the latest handler run ended in its catch block
    messages,     \* the rows of the messages table, in id order
    response,     \* the HTTP request being answered and its answer
    analysis,     \* per message id, the state of its background analyzeTone
    raised,       \* the socket whose send() raised in the latest handler run
    outbox,       \* per socket, the frames its client wrote, not yet handled
    inbox         \* per socket, the new_message frames the send flow got to it

relayVars == <<readyState, clients, sent, caught>>
storeVars == <<messages, response, analysis>>
wireVars == <<raised, outbox, inbox>>
vars == <<readyState, clients, sent, caught, messages, response, analysis,
          raised, outbox, inbox>>

\* ------------------------------------------------------- the `clients` Map
\* Map.has(ws)
MapHas(cl, ws) == \E i \in 1..Len(cl) : cl[i].ws = ws

\* position of ws among the Map's entries (insertion order)
MapIndex(cl, ws) == CHOOSE i \in 1..Len(cl) : cl[i].ws = ws

\* Map.set(ws, val): an existing key keeps its place, a new key is appended
MapSet(cl, ws, val) ==
    IF MapHas(cl, ws) THEN [cl EXCEPT ![MapIndex(cl, ws)] = val]
    ELSE Append(cl, val)

\* Map.delete(ws): no effect when the key is absent
MapDelete(cl, ws) == SelectSeq(cl, LAMBDA e : e.ws # ws)

\* message.data of a new_message frame: absent, or an object with an authorId
NoData == [defined |-> FALSE, authorId |-> Null]
Data(a) == [defined |-> TRUE, authorId |-> a]
DataArgs == {NoData} \cup {Data(a) : a \in Users}

\* values a client can put in channelId / recipientId of a new_message frame
ChannelArgs == {Null, 0} \cup Channels
RecipientArgs == {Null} \cup Users

\* JavaScript truthiness of a numeric-or-null field
Truthy(v) == v # Null /\ v # 0

\* ------------------------------------------------------------ the handlers
\* an auth that keeps the subscriptions of the entry it replaces
OnAuthKeepsChannels(cl, ws, userId) ==
    MapSet(cl, ws, [ws |-> ws, userId |-> userId,
                    channels |-> IF MapHas(cl, ws)
                                 THEN cl[MapIndex(cl, ws)].channels ELSE {}])

\* case 'auth'
OnAuth(cl, ws, userId) ==
    MapSet(cl, ws, [ws |-> ws, userId |-> userId, channels |-> {}])

\* a join that toggles the membership instead of adding it
OnJoinChannelToggle(cl, ws, channelId) ==
    IF MapHas(cl, ws)
    THEN [cl EXCEPT ![MapIndex(cl, ws)].channels =
              IF channelId \in @ THEN @ \ {channelId} ELSE @ \cup {channelId}]
    ELSE cl

\* a join that registers a socket that never sent auth
OnJoinChannelRegisters(cl, ws, channelId) ==
    IF MapHas(cl, ws)
    THEN [cl EXCEPT ![MapIndex(cl, ws)].channels = @ \cup {channelId}]
    ELSE Append(cl, [ws |-> ws, userId |-> Null, channels |-> {channelId}])

\* case 'join_channel'
OnJoinChannel(cl, ws, channelId) ==
    IF MapHas(cl, ws)
    THEN [cl EXCEPT ![MapIndex(cl, ws)].channels = @ \cup {channelId}]
    ELSE cl

\* case 'leave_channel'
OnLeaveChannel(cl, ws, channelId) ==
    IF MapHas(cl, ws)
    THEN [cl EXCEPT ![MapIndex(cl, ws)].channels = @ \ {channelId}]
    ELSE cl

\* a close handler that forgets to delete the entry
OnCloseKeepsEntry(cl, ws) == cl

\* ws.on('close')
OnClose(cl, ws) == MapDelete(cl, ws)

\* the channel condition without the subscription test
ChannelTargetAnyChannel(e, rs, ws, channelId) ==
    /\ e.ws # ws
    /\ rs[e.ws] = "OPEN"

\* the channel condition without the readyState test
ChannelTargetAnyState(e, rs, ws, channelId) ==
    /\ e.ws # ws
    /\ channelId \in e.channels

\* the condition of the channel branch's forEach body (also the typing case's)
ChannelTarget(e, rs, ws, channelId) ==
    /\ e.ws # ws
    /\ channelId \in e.channels
    /\ rs[e.ws] = "OPEN"

\* connections the channel branch of new_message writes to
ChannelRecipients(cl, rs, ws, channelId) ==
    {cl[i].ws : i \in {j \in 1..Len(cl) : ChannelTarget(cl[j], rs, ws, channelId)}}

\* the DM condition matching the recipient only, not the author
DmTargetRecipientOnly(e, rs, ws, recipientId, data) ==
    /\ e.userId = recipientId
    /\ rs[e.ws] = "OPEN"
    /\ e.ws # ws

\* the condition of the DM branch's forEach body, once message.data can be read
DmTarget(e, rs, ws, recipientId, data) ==
    /\ (e.userId = recipientId \/ e.userId = data.authorId)
    /\ rs[e.ws] = "OPEN"
    /\ e.ws # ws

\* The DM branch's forEach from entry i on: reading message.data.authorId of an
\* absent data throws (TypeError) and ends the walk at that entry.
RECURSIVE DmWalk(_, _, _, _, _, _)
DmWalk(cl, rs, ws, recipientId, data, i) ==
    IF i > Len(cl) THEN [to |-> {}, threw |-> FALSE]
    ELSE IF cl[i].userId # recipientId /\ ~data.defined
         THEN [to |-> {}, threw |-> TRUE]
         ELSE LET rest == DmWalk(cl, rs, ws, recipientId, data, i + 1)
                  here == IF DmTarget(cl[i], rs, ws, recipientId, data)
                          THEN {cl[i].ws} ELSE {}
              IN  [to |-> here \cup rest.to, threw |-> rest.threw]

\* the frame JSON.stringify({type: 'new_message', message: message.data})
NewMessageFrame(data) == [type |-> "new_message", message |-> data]

\* a typing frame that always says the user is typing
TypingFrameAlwaysTyping(userId, channelId, isTyping) ==
    [type |-> "typing", userId |-> userId, channelId |-> channelId,
     isTyping |-> TRUE]

\* the frame of the typing case
TypingFrame(userId, channelId, isTyping) ==
    [type |-> "typing", userId |-> userId, channelId |-> channelId,
     isTyping |-> isTyping]

Frames(to, frame) == {[to |-> c, frame |-> frame] : c \in to}

\* a new_message case that relays a DM only for a sender registered as the
\* message's author
HandleNewMessageAuthorChecked(cl, rs, ws, channelId, recipientId, data) ==
    IF Truthy(channelId)
    THEN [frames |-> Frames(ChannelRecipients(cl, rs, ws, channelId),
                            NewMessageFrame(data)),
          threw |-> FALSE]
    ELSE IF Truthy(recipientId) /\ MapHas(cl, ws)
               /\ cl[MapIndex(cl, ws)].userId = data.authorId
         THEN LET w == DmWalk(cl, rs, ws, recipientId, data, 1)
              IN  [frames |-> Frames(w.to, NewMessageFrame(data)),
                   threw |-> w.threw]
         ELSE [frames |-> {}, threw |-> FALSE]

\* a new_message case that relays to a channel only for a sender subscribed
\* to it
HandleNewMessageMembersOnly(cl, rs, ws, channelId, recipientId, data) ==
    IF Truthy(channelId)
    THEN [frames |-> IF MapHas(cl, ws)
                        /\ channelId \in cl[MapIndex(cl, ws)].channels
                     THEN Frames(ChannelRecipients(cl, rs, ws, channelId),
                                 NewMessageFrame(data))
                     ELSE {},
          threw |-> FALSE]
    ELSE IF Truthy(recipientId)
         THEN LET w == DmWalk(cl, rs, ws, recipientId, data, 1)
              IN  [frames |-> Frames(w.to, NewMessageFrame(data)),
                   threw |-> w.threw]
         ELSE [frames |-> {}, threw |-> FALSE]

\* a new_message case that runs the DM branch after the channel branch
HandleNewMessageBothBranches(cl, rs, ws, channelId, recipientId, data) ==
    LET ch == IF Truthy(channelId)
              THEN ChannelRecipients(cl, rs, ws, channelId) ELSE {}
        dm == IF Truthy(recipientId)
              THEN DmWalk(cl, rs, ws, recipientId, data, 1)
              ELSE [to |-> {}, threw |-> FALSE]
    IN  [frames |-> Frames(ch \cup dm.to, NewMessageFrame(data)),
         threw |-> dm.threw]

\* case 'new_message': the frames written and whether the catch block ran
HandleNewMessage(cl, rs, ws, channelId, recipientId, data) ==
    IF Truthy(channelId)
    THEN [frames |-> Frames(ChannelRecipients(cl, rs, ws, channelId),
                            NewMessageFrame(data)),
          threw |-> FALSE]
    ELSE IF Truthy(recipientId)
         THEN LET w == DmWalk(cl, rs, ws, recipientId, data, 1)
              IN  [frames |-> Frames(w.to, NewMessageFrame(data)),
                   threw |-> w.threw]
         ELSE [frames |-> {}, threw |-> FALSE]

\* case 'typing'
HandleTyping(cl, rs, ws, channelId, userId, isTyping) ==
    [frames |-> Frames(ChannelRecipients(cl, rs, ws, channelId),
                       TypingFrame(userId, channelId, isTyping)),
     threw |-> FALSE]

\* ------------------------------------------------------------- the actions
\* The handlers run one at a time, to completion. A handler is taken from a
\* state in which the frames of the previous one have been written out.
Idle == sent = {} /\ ~caught

\* 'message' events that keep coming after the 'close' event
ReceivingAfterClose(c) == Idle

\* A 'message' event can be emitted for a socket that is open, or that is
\* closing and still flushes buffered frames; never after 'close'.
Receiving(c) == Idle /\ readyState[c] \in {"OPEN", "CLOSING"}

\* Sockets carry no identity of their own: they are numbered in the order in
\* which they first enter the Map, so that the Map's insertion order is the
\* order of the numbers (a socket enters the Map at most once: 'close' is
\* final, and a repeated auth keeps the entry's place).
EntersInOrder(cl, ws) == \A i \in 1..Len(cl) : cl[i].ws <= ws

\* an auth that answers the sender with an acknowledgement frame
AuthEchoes(c, userId) ==
    /\ Receiving(c)
    /\ EntersInOrder(clients, c) \/ MapHas(clients, c)
    /\ clients' = OnAuth(clients, c, userId)
    /\ sent' = {[to |-> c, frame |-> [type |-> "auth_ok"]]}
    /\ caught' = FALSE
    /\ UNCHANGED <<readyState, storeVars, wireVars>>

Auth(c, userId) ==
    /\ Receiving(c)
    /\ EntersInOrder(clients, c) \/ MapHas(clients, c)
    /\ clients' = OnAuth(clients, c, userId)
    /\ sent' = {}
    /\ caught' = FALSE
    /\ UNCHANGED <<readyState, storeVars, wireVars>>

JoinChannel(c, channelId) ==
    /\ Receiving(c)
    /\ clients' = OnJoinChannel(clients, c, channelId)
    /\ sent' = {}
    /\ caught' = FALSE
    /\ UNCHANGED <<readyState, storeVars, wireVars>>

LeaveChannel(c, channelId) ==
    /\ Receiving(c)
    /\ clients' = OnLeaveChannel(clients, c, channelId)
    /\ sent' = {}
    /\ caught' = FALSE
    /\ UNCHANGED <<readyState, storeVars, wireVars>>

\* what the new_message case does in the current state
NewMessageOut(c, channelId, recipientId, data) ==
    HandleNewMessage(clients, readyState, c, channelId, recipientId, data)

NewMessage(c, channelId, recipientId, data) ==
    /\ Receiving(c)
    /\ sent' = NewMessageOut(c, channelId, recipientId, data).frames
    /\ caught' = NewMessageOut(c, channelId, recipientId, data).threw
    /\ UNCHANGED <<readyState, clients, storeVars, wireVars>>

\* what the typing case does in the current state
TypingOut(c, channelId, userId, isTyping) ==
    HandleTyping(clients, readyState, c, channelId, userId, isTyping)

Typing(c, channelId, userId, isTyping) ==
    /\ Receiving(c)
    /\ sent' = TypingOut(c, channelId, userId, isTyping).frames
    /\ caught' = TypingOut(c, channelId, userId, isTyping).threw
    /\ UNCHANGED <<readyState, clients, storeVars, wireVars>>

\* the transport goes down (peer gone, socket error): readyState leaves OPEN
\* before the 'close' event is emitted
TransportDown(c) ==
    /\ Idle
    /\ readyState[c] = "OPEN"
    /\ readyState' = [readyState EXCEPT ![c] = "CLOSING"]
    /\ sent' = {}
    /\ caught' = FALSE
    /\ UNCHANGED <<clients, storeVars, wireVars>>

\* ws.on('close')
Close(c) ==
    /\ Idle
    /\ readyState[c] \in {"OPEN", "CLOSING"}
    /\ readyState' = [readyState EXCEPT ![c] = "CLOSED"]
    /\ clients' = OnClose(clients, c)
    /\ sent' = {}
    /\ caught' = FALSE
    /\ UNCHANGED <<storeVars, wireVars>>

\* the frames queued by send() are written out, the logged error is past
Drain ==
    /\ ~Idle
    /\ sent' = {}
    /\ caught' = FALSE
    /\ UNCHANGED <<readyState, clients, storeVars, wireVars>>

\* ------------------------------------------------------- the message store
\* a request body without the field
NoContent == "<undefined>"
Contents == {"a", "b"}
ContentArgs == Contents \cup {NoContent}
ChannelIdArgs == {Null} \cup Channels
RecipientIdArgs == {Null} \cup Users

\* the limits of the queries
DefaultLimit == 50
SearchLimit == 20
Limits == {1, 2, DefaultLimit}

\* insertMessageSchema.parse: the columns' types and NOT NULL, nothing else;
\* channelId, recipientId and parentMessageId are nullable and optional
InsertMessageSchemaOk(body) == body.content # NoContent

Min(a, b) == IF a < b THEN a ELSE b
IdsOf(rows) == {rows[i].id : i \in 1..Len(rows)}
RowOf(rows, id) == rows[CHOOSE i \in 1..Len(rows) : rows[i].id = id]

\* the references() of the messages table, checked when the INSERT statement
\* ends: the new row is among the rows a parentMessageId may name
ForeignKeysOk(rows, row) ==
    /\ row.authorId \in Users
    /\ row.channelId = Null \/ row.channelId \in Channels
    /\ row.recipientId = Null \/ row.recipientId \in Users
    /\ row.parentMessageId = Null
         \/ row.parentMessageId \in IdsOf(rows) \cup {row.id}

\* the row INSERT ... RETURNING builds: id from the serial, createdAt from
\* defaultNow(), which has advanced by tick since the previous insert
InsertedRow(rows, message, tick) ==
    [id |-> Len(rows) + 1,
     content |-> message.content,
     authorId |-> message.authorId,
     channelId |-> message.channelId,
     parentMessageId |-> message.parentMessageId,
     recipientId |-> message.recipientId,
     createdAt |-> IF rows = <<>> THEN 1 ELSE rows[Len(rows)].createdAt + tick]

\* DatabaseStorage.createMessage: the table afterwards; a violated constraint
\* throws and leaves the table as it was
createMessage(rows, message, tick) ==
    LET row == InsertedRow(rows, message, tick)
    IN  IF ForeignKeysOk(rows, row)
        THEN [ok |-> TRUE, rows |-> Append(rows, row), id |-> row.id]
        ELSE [ok |-> FALSE, rows |-> rows, id |-> Null]

\* SQL's three-valued comparison and connectives (drizzle's eq, and, or)
SqlEq(a, b) ==
    IF a = Null \/ b = Null THEN "unknown"
    ELSE IF a = b THEN "true" ELSE "false"
SqlAnd(p, q) ==
    IF p = "false" \/ q = "false" THEN "false"
    ELSE IF p = "true" /\ q = "true" THEN "true" ELSE "unknown"
SqlOr(p, q) ==
    IF p = "true" \/ q = "true" THEN "true"
    ELSE IF p = "false" /\ q = "false" THEN "false" ELSE "unknown"

\* ORDER BY createdAt ASC over the rows with the ids S: every order of S that
\* the timestamps allow (rows of equal createdAt come in any order)
OrderByCreatedAtAsc(rows, S) ==
    {f \in [1..Cardinality(S) -> S] :
        /\ \A i, j \in 1..Cardinality(S) : i # j => f[i] # f[j]
        /\ \A i, j \in 1..Cardinality(S) :
              i < j => RowOf(rows, f[i]).createdAt <= RowOf(rows, f[j]).createdAt}

OrderByCreatedAtDesc(rows, S) ==
    {f \in [1..Cardinality(S) -> S] :
        /\ \A i, j \in 1..Cardinality(S) : i # j => f[i] # f[j]
        /\ \A i, j \in 1..Cardinality(S) :
              i < j => RowOf(rows, f[i]).createdAt >= RowOf(rows, f[j]).createdAt}

\* a LIMIT that keeps the n last rows of the order
LimitKeepsLatest(seq, n) ==
    [i \in 1..Min(n, Len(seq)) |-> seq[Len(seq) - Min(n, Len(seq)) + i]]

\* LIMIT n
Limit(seq, n) == [i \in 1..Min(n, Len(seq)) |-> seq[i]]

\* a channel WHERE clause that selects every row
ChannelWhereAnyRow(rows, channelId) == IdsOf(rows)

\* .where(eq(messages.channelId, channelId))
ChannelWhere(rows, channelId) ==
    {id \in IdsOf(rows) : SqlEq(RowOf(rows, id).channelId, channelId) = "true"}

\* a replies WHERE clause that also asks for the parent's channel
ParentWhereSameChannel(rows, parentId) ==
    {id \in IdsOf(rows) :
        /\ SqlEq(RowOf(rows, id).parentMessageId, parentId) = "true"
        /\ parentId \in IdsOf(rows)
        /\ RowOf(rows, id).channelId = RowOf(rows, parentId).channelId}

\* .where(eq(messages.parentMessageId, parentId))
ParentWhere(rows, parentId) ==
    {id \in IdsOf(rows) :
        SqlEq(RowOf(rows, id).parentMessageId, parentId) = "true"}

\* the WHERE clause of getDirectMessages
DirectWhere(rows, userId1, userId2) ==
    {id \in IdsOf(rows) :
        LET m == RowOf(rows, id)
        IN  SqlAnd(SqlEq(m.channelId, Null),
                   SqlOr(SqlAnd(SqlEq(m.authorId, userId1),
                                SqlEq(m.recipientId, userId2)),
                         SqlAnd(SqlEq(m.authorId, userId2),
                                SqlEq(m.recipientId, userId1)))) = "true"}

\* DatabaseStorage.getMessageThread: the results the query can give (ids)
getMessageThread(rows, parentId) ==
    OrderByCreatedAtAsc(rows, ParentWhere(rows, parentId))

\* the for loop of getChannelMessages from entry i on: one replies list per
\* entry, each a result of the replies query (the SQL of getMessageThread)
RECURSIVE RepliesLists(_, _, _)
RepliesLists(rows, msgs, i) ==
    IF i > Len(msgs) THEN {<<>>}
    ELSE {<<replies>> \o rest :
             replies \in OrderByCreatedAtAsc(rows, ParentWhere(rows, msgs[i])),
             rest \in RepliesLists(rows, msgs, i + 1)}

\* DatabaseStorage.getChannelMessages: the results the query can give, the
\* entries (ids) and, for each entry, its replies list
getChannelMessages(rows, channelId, limit) ==
    UNION {
        {[rows |-> msgs, replies |-> rp] : rp \in RepliesLists(rows, msgs, 1)} :
        msgs \in {Limit(o, limit) :
                     o \in OrderByCreatedAtAsc(rows, ChannelWhere(rows, channelId))}}

\* DatabaseStorage.getDirectMessages
getDirectMessages(rows, userId1, userId2, limit) ==
    {Limit(o, limit) :
        o \in OrderByCreatedAtAsc(rows, DirectWhere(rows, userId1, userId2))}

\* DatabaseStorage.searchMessages: the query text takes no part in the SQL
searchMessages(rows, query, channelId) ==
    {Limit(o, SearchLimit) :
        o \in OrderByCreatedAtDesc(rows,
                 IF Truthy(channelId) THEN ChannelWhere(rows, channelId)
                 ELSE IdsOf(rows))}

\* ------------------------------------------------------------- the routes
\* Requests are answered one at a time; only requests of a logged-in user are
\* modelled (req.isAuthenticated() holds, req.user.id is the author).
NoResponse == [op |-> "none", status |-> 0]
Serving == response = NoResponse

\* a POST /api/messages that also writes the created channel message to the
\* open subscribers of its channel
PostMessagesBroadcasts(user, content, channelId, recipientId, parentMessageId, tick) ==
    /\ Serving
    /\ LET body == [content |-> content, authorId |-> user,
                    channelId |-> channelId, recipientId |-> recipientId,
                    parentMessageId |-> parentMessageId]
           res == createMessage(messages, body, tick)
       IN  IF InsertMessageSchemaOk(body) /\ res.ok
           THEN /\ messages' = res.rows
                /\ analysis' = Append(analysis, "pending")
                /\ response' = [op |-> "createMessage", status |-> 201,
                                id |-> res.id]
                /\ sent' = sent \cup
                       Frames({clients[i].ws : i \in
                                  {j \in 1..Len(clients) :
                                      /\ channelId \in clients[j].channels
                                      /\ readyState[clients[j].ws] = "OPEN"}},
                              NewMessageFrame(Data(user)))
           ELSE /\ messages' = messages
                /\ analysis' = analysis
                /\ response' = [op |-> "createMessage", status |-> 400]
                /\ sent' = sent
    /\ UNCHANGED <<readyState, clients, caught, wireVars>>

\* a POST /api/messages that awaits the tone analysis before it answers, and
\* answers 400 when the analysis fails
PostMessagesAwaitsAnalysis(user, content, channelId, recipientId, parentMessageId, tick) ==
    /\ Serving
    /\ LET body == [content |-> content, authorId |-> user,
                    channelId |-> channelId, recipientId |-> recipientId,
                    parentMessageId |-> parentMessageId]
           res == createMessage(messages, body, tick)
       IN  IF InsertMessageSchemaOk(body) /\ res.ok
           THEN /\ messages' = res.rows
                /\ \E outcome \in {"logged", "failed"} :
                      /\ analysis' = Append(analysis, outcome)
                      /\ response' = IF outcome = "logged"
                                     THEN [op |-> "createMessage",
                                           status |-> 201, id |-> res.id]
                                     ELSE [op |-> "createMessage",
                                           status |-> 400]
           ELSE /\ messages' = messages
                /\ analysis' = analysis
                /\ response' = [op |-> "createMessage", status |-> 400]
    /\ UNCHANGED <<relayVars, wireVars>>

\* POST /api/messages: parse, createMessage, analyzeTone started in the
\* background (its promise is not awaited), answer
PostMessages(user, content, channelId, recipientId, parentMessageId, tick) ==
    /\ Serving
    /\ LET body == [content |-> content, authorId |-> user,
                    channelId |-> channelId, recipientId |-> recipientId,
                    parentMessageId |-> parentMessageId]
           res == createMessage(messages, body, tick)
       IN  IF InsertMessageSchemaOk(body) /\ res.ok
           THEN /\ messages' = res.rows
                /\ analysis' = Append(analysis, "pending")
                /\ response' = [op |-> "createMessage", status |-> 201,
                                id |-> res.id]
           ELSE /\ messages' = messages
                /\ analysis' = analysis
                /\ response' = [op |-> "createMessage", status |-> 400]
    /\ UNCHANGED <<relayVars, wireVars>>

\* GET /api/messages/:id/thread
GetThread(messageId) ==
    /\ Serving
    /\ \E rows \in getMessageThread(messages, messageId) :
          response' = [op |-> "getMessageThread", status |-> 200,
                       parentId |-> messageId, rows |-> rows]
    /\ UNCHANGED <<messages, analysis, relayVars, wireVars>>

\* GET /api/channels/:id/messages, and the storage call with a limit
GetChannelMessages(channelId, limit) ==
    /\ Serving
    /\ \E res \in getChannelMessages(messages, channelId, limit) :
          response' = [op |-> "getChannelMessages", status |-> 200,
                       channelId |-> channelId, limit |-> limit,
                       rows |-> res.rows, replies |-> res.replies]
    /\ UNCHANGED <<messages, analysis, relayVars, wireVars>>

\* GET /api/direct-messages/:userId
GetDirectMessages(user, otherUserId) ==
    /\ Serving
    /\ \E rows \in getDirectMessages(messages, user, otherUserId, DefaultLimit) :
          response' = [op |-> "getDirectMessages", status |-> 200,
                       userId1 |-> user, userId2 |-> otherUserId, rows |-> rows]
    /\ UNCHANGED <<messages, analysis, relayVars, wireVars>>

\* GET /api/search?q=..&channelId=..   (q is never empty here: an empty q is
\* answered [] before the store is asked)
GetSearch(query, channelId) ==
    /\ Serving
    /\ \E rows \in searchMessages(messages, query, channelId) :
          response' = [op |-> "searchMessages", status |-> 200,
                       query |-> query, channelId |-> channelId, rows |-> rows]
    /\ UNCHANGED <<messages, analysis, relayVars, wireVars>>

\* res.json(...): the answer is out
Respond ==
    /\ ~Serving
    /\ response' = NoResponse
    /\ UNCHANGED <<messages, analysis, relayVars, wireVars>>

\* The server is up and has accepted the sockets; wss.on('connection') only
\* installs the two handlers, so an accepted socket is open and not in the Map.
Init ==
    /\ readyState = [c \in Conns |-> "OPEN"]
    /\ clients = <<>>
    /\ sent = {}
    /\ caught = FALSE
    /\ messages = <<>>
    /\ response = NoResponse
    /\ analysis = <<>>
    /\ raised = Null
    /\ outbox = [c \in Conns |-> <<>>]
    /\ inbox = [c \in Conns |-> <<>>]

Next ==
    \/ \E c \in Conns, u \in Users : Auth(c, u)
    \/ \E c \in Conns, ch \in Channels : JoinChannel(c, ch)
    \/ \E c \in Conns, ch \in Channels : LeaveChannel(c, ch)
    \/ \E c \in Conns, ch \in ChannelArgs, r \in RecipientArgs, d \in DataArgs :
          NewMessage(c, ch, r, d)
    \/ \E c \in Conns, ch \in Channels, u \in Users, t \in BOOLEAN :
          Typing(c, ch, u, t)
    \/ \E c \in Conns : TransportDown(c)
    \/ \E c \in Conns : Close(c)
    \/ Drain

Spec == Init /\ [][Next]_vars

\* the store under requests of every shape, without threads
StoreNext ==
    \/ /\ Len(messages) < MaxMessages
       /\ \E u \in Users, co \in ContentArgs, ch \in ChannelIdArgs,
             r \in RecipientIdArgs, tick \in {0, 1} :
             PostMessages(u, co, ch, r, Null, tick)
    \/ \E u \in Users, o \in Users : GetDirectMessages(u, o)
    \/ \E q \in Contents, ch \in ChannelIdArgs : GetSearch(q, ch)
    \/ Respond

StoreSpec == Init /\ [][StoreNext]_vars

\* the store under channel messages of one author that reply to one another
ThreadNext ==
    \/ /\ Len(messages) < MaxThread
       /\ \E ch \in Channels, p \in {Null} \cup 1..(MaxThread + 1),
             tick \in {0, 1} :
             PostMessages(1, "a", ch, Null, p, tick)
    \/ \E id \in 1..(MaxThread + 1) : GetThread(id)
    \/ \E ch \in Channels, limit \in Limits : GetChannelMessages(ch, limit)
    \/ Respond

ThreadSpec == Init /\ [][ThreadNext]_vars

\* the store under replies of every kind: channel messages and direct messages
\* of one author, each with or without a parent
ReplyNext ==
    \/ /\ Len(messages) < MaxThread
       /\ \E p \in {Null} \cup 1..(MaxThread + 1), tick \in {0, 1} :
             \/ \E ch \in Channels : PostMessages(1, "a", ch, Null, p, tick)
             \/ PostMessages(1, "a", Null, 2, p, tick)
    \/ \E ch \in Channels, limit \in Limits : GetChannelMessages(ch, limit)
    \/ Respond

ReplySpec == Init /\ [][ReplyNext]_vars

\* --------------------------------------------- the background analysis
\* the OpenAI call of a pending analyzeTone answers and .then logs the analysis
AnalysisResolves(id) ==
    /\ id \in 1..Len(analysis)
    /\ analysis[id] = "pending"
    /\ analysis' = [analysis EXCEPT ![id] = "logged"]
    /\ UNCHANGED <<messages, response, relayVars, wireVars>>

\* the OpenAI call of a pending analyzeTone fails: the error is logged (by
\* analyzeTone's own catch, or by .catch(console.error))
AnalysisFails(id) ==
    /\ id \in 1..Len(analysis)
    /\ analysis[id] = "pending"
    /\ analysis' = [analysis EXCEPT ![id] = "failed"]
    /\ UNCHANGED <<messages, response, relayVars, wireVars>>

\* the store under creations (of one author, in one channel) whose analyses
\* answer, fail or stay pending
InsightNext ==
    \/ /\ Len(messages) < MaxThread
       /\ \E co \in {"a", NoContent}, tick \in {0, 1} :
             PostMessages(1, co, 1, Null, Null, tick)
    \/ \E id \in 1..MaxThread : AnalysisResolves(id)
    \/ \E id \in 1..MaxThread : AnalysisFails(id)
    \/ Respond

InsightSpec == Init /\ [][InsightNext]_vars

\* ------------------------------------- the relay when a write can raise
\* clients.forEach of the channel branch and of the typing case from entry i
\* on, when clientWs.send of the socket `failing` raises: the exception leaves
\* forEach at that entry, the entries after it are not visited, and the catch
\* block of the handler logs it.
RECURSIVE ChannelWalk(_, _, _, _, _, _)
ChannelWalk(cl, rs, ws, channelId, failing, i) ==
    IF i > Len(cl) THEN [to |-> {}, raised |-> Null]
    ELSE IF ~ChannelTarget(cl[i], rs, ws, channelId)
         THEN ChannelWalk(cl, rs, ws, channelId, failing, i + 1)
         ELSE IF cl[i].ws = failing
              THEN [to |-> {}, raised |-> failing]
              ELSE LET rest == ChannelWalk(cl, rs, ws, channelId, failing, i + 1)
                   IN  [to |-> {cl[i].ws} \cup rest.to, raised |-> rest.raised]

\* what the channel branch of new_message does in the current state when the
\* write to `failing` raises
NewMessageRaisingOut(c, channelId, data, failing) ==
    LET w == ChannelWalk(clients, readyState, c, channelId, failing, 1)
    IN  [frames |-> Frames(w.to, NewMessageFrame(data)),
         threw |-> w.raised # Null,
         raised |-> w.raised]

NewMessageRaising(c, channelId, data, failing) ==
    /\ Receiving(c)
    /\ sent' = NewMessageRaisingOut(c, channelId, data, failing).frames
    /\ caught' = NewMessageRaisingOut(c, channelId, data, failing).threw
    /\ raised' = NewMessageRaisingOut(c, channelId, data, failing).raised
    /\ UNCHANGED <<readyState, clients, storeVars, outbox, inbox>>

\* what the typing case does in the current state when the write to `failing`
\* raises
TypingRaisingOut(c, channelId, userId, isTyping, failing) ==
    LET w == ChannelWalk(clients, readyState, c, channelId, failing, 1)
    IN  [frames |-> Frames(w.to, TypingFrame(userId, channelId, isTyping)),
         threw |-> w.raised # Null,
         raised |-> w.raised]

TypingRaising(c, channelId, userId, isTyping, failing) ==
    /\ Receiving(c)
    /\ sent' = TypingRaisingOut(c, channelId, userId, isTyping, failing).frames
    /\ caught' = TypingRaisingOut(c, channelId, userId, isTyping, failing).threw
    /\ raised' = TypingRaisingOut(c, channelId, userId, isTyping, failing).raised
    /\ UNCHANGED <<readyState, clients, storeVars, outbox, inbox>>

\* the written frames are out and the logged exception is past
FaultDrain ==
    /\ ~Idle
    /\ sent' = {}
    /\ caught' = FALSE
    /\ raised' = Null
    /\ UNCHANGED <<readyState, clients, storeVars, outbox, inbox>>

FaultNext ==
    \/ \E c \in Conns, u \in Users : Auth(c, u)
    \/ \E c \in Conns, ch \in Channels : JoinChannel(c, ch)
    \/ \E c \in Conns : Close(c)
    \/ \E c \in Conns, ch \in Channels, a \in Users, f \in Conns :
          NewMessageRaising(c, ch, Data(a), f)
    \/ \E c \in Conns, ch \in Channels, u \in Users, t \in BOOLEAN, f \in Conns :
          TypingRaising(c, ch, u, t, f)
    \/ FaultDrain

FaultSpec == Init /\ [][FaultNext]_vars

\* ------------------------------------------------ the client's send flow
\* messages the send flow creates at most
MaxFlow == 1

\* the created message as the JSON the POST answers with
MessageData(row) ==
    [defined |-> TRUE, authorId |-> row.authorId, id |-> row.id,
     recipientId |-> row.recipientId]

\* useWebSocket.sendMessage: the frame is written only on an open socket
sendMessage(ob, rs, ws, frame) ==
    IF rs[ws] = "OPEN" THEN [ob EXCEPT ![ws] = Append(@, frame)] ELSE ob

\* useWebSocket.broadcastMessage
broadcastMessage(ob, rs, ws, channelId, messageData) ==
    sendMessage(ob, rs, ws,
        [type |-> "new_message",
         channelId |-> IF Truthy(channelId) THEN channelId ELSE Null,
         recipientId |-> IF Truthy(messageData.recipientId)
                         THEN messageData.recipientId ELSE Null,
         data |-> messageData])

\* ChatArea's onMessageSent prop, on the socket of ChatArea's useWebSocket
onMessageSent(ob, rs, ws, selectedChannel, message) ==
    IF Truthy(selectedChannel)
    THEN broadcastMessage(ob, rs, ws, selectedChannel, message)
    ELSE ob

\* sendMessageMutation.onSuccess of MessageInput (its own useWebSocket socket
\* is inputWs), mounted by ChatArea with channelId = selectedChannel (socket
\* chatWs)
onSuccess(ob, rs, inputWs, chatWs, channelId, recipientId, message) ==
    LET broadcast ==
            IF Truthy(channelId)
            THEN broadcastMessage(ob, rs, inputWs, channelId, message)
            ELSE IF Truthy(recipientId)
                 THEN broadcastMessage(ob, rs, inputWs, 0,
                          [message EXCEPT !.recipientId = recipientId])
                 ELSE ob
    IN  onMessageSent(broadcast, rs, chatWs, channelId, message)

\* a socket of the page of `user`: it sent auth with user.id when it opened
\* (and is still registered so), or it has closed since
SocketOf(user, ws) ==
    \/ MapHas(clients, ws) /\ clients[MapIndex(clients, ws)].userId = user
    \/ readyState[ws] = "CLOSED"

\* the POST has answered 201 and the author's page runs onSuccess
OnSuccess(inputWs, chatWs) ==
    /\ response.op = "createMessage"
    /\ response.status = 201
    /\ inputWs # chatWs
    /\ LET row == RowOf(messages, response.id)
       IN  /\ SocketOf(row.authorId, inputWs)
           /\ SocketOf(row.authorId, chatWs)
           /\ outbox' = onSuccess(outbox, readyState, inputWs, chatWs,
                                  row.channelId, row.recipientId,
                                  MessageData(row))
    /\ response' = NoResponse
    /\ UNCHANGED <<messages, analysis, relayVars, raised, inbox>>

\* a server that handles the newest frame in flight first
RelayFrameNewestFirst(c) ==
    /\ Receiving(c)
    /\ outbox[c] # <<>>
    /\ LET frame == outbox[c][Len(outbox[c])]
           out == HandleNewMessage(clients, readyState, c, frame.channelId,
                                   frame.recipientId, frame.data)
       IN  /\ sent' = out.frames
           /\ caught' = out.threw
           /\ inbox' = [p \in Conns |->
                           IF p \in {f.to : f \in out.frames}
                           THEN Append(inbox[p], NewMessageFrame(frame.data))
                           ELSE inbox[p]]
    /\ outbox' = [outbox EXCEPT ![c] = SubSeq(@, 1, Len(@) - 1)]
    /\ UNCHANGED <<readyState, clients, storeVars, raised>>

\* the server handles the oldest frame in flight from socket c, and the frames
\* it writes reach their sockets
RelayFrame(c) ==
    /\ Receiving(c)
    /\ outbox[c] # <<>>
    /\ LET frame == Head(outbox[c])
           out == HandleNewMessage(clients, readyState, c, frame.channelId,
                                   frame.recipientId, frame.data)
       IN  /\ sent' = out.frames
           /\ caught' = out.threw
           /\ inbox' = [p \in Conns |->
                           IF p \in {f.to : f \in out.frames}
                           THEN Append(inbox[p], NewMessageFrame(frame.data))
                           ELSE inbox[p]]
    /\ outbox' = [outbox EXCEPT ![c] = Tail(@)]
    /\ UNCHANGED <<readyState, clients, storeVars, raised>>

FlowNext ==
    \/ \E c \in Conns, u \in Users : Auth(c, u)
    \/ \E c \in Conns, ch \in Channels : JoinChannel(c, ch)
    \/ \E c \in Conns : Close(c)
    \/ /\ Len(messages) < MaxFlow
       /\ \E u \in Users :
             \/ \E ch \in Channels : PostMessages(u, "a", ch, Null, Null, 0)
             \/ \E r \in Users : PostMessages(u, "a", Null, r, Null, 0)
             \/ \E ch \in Channels : PostMessages(u, NoContent, ch, Null, Null, 0)
    \/ \E inputWs \in Conns, chatWs \in Conns : OnSuccess(inputWs, chatWs)
    \/ \E c \in Conns : RelayFrame(c)
    \/ Respond
    \/ Drain

FlowSpec == Init /\ [][FlowNext]_vars

\* ------------------------------------------- one connection's frame order
\* frames a socket's client numbers at most
MaxSends == 2

\* the numbers of the frames of socket c that are in flight or were delivered
NumbersOf(c) ==
    {outbox[c][i].data.id : i \in 1..Len(outbox[c])}
    \cup UNION {{inbox[p][i].message.id :
                    i \in {j \in 1..Len(inbox[p]) : inbox[p][j].message.from = c}} :
                p \in Conns}

\* the number of the next frame of socket c: above every number still seen
NextNumber(c) ==
    IF NumbersOf(c) = {} THEN 1
    ELSE 1 + CHOOSE n \in NumbersOf(c) : \A m \in NumbersOf(c) : m <= n

\* the client of socket c broadcasts a channel message whose payload names the
\* socket and the frame's number
ClientBroadcast(c, channelId) ==
    /\ NextNumber(c) <= MaxSends
    /\ readyState[c] = "OPEN"
    /\ outbox' = broadcastMessage(outbox, readyState, c, channelId,
                     [defined |-> TRUE, authorId |-> 1, recipientId |-> Null,
                      id |-> NextNumber(c), from |-> c])
    /\ UNCHANGED <<relayVars, storeVars, raised, inbox>>

\* every socket can register and join channel 1; the clients of all sockets
\* but the last broadcast to it
OrderNext ==
    \/ \E c \in Conns : Auth(c, 1)
    \/ \E c \in Conns : JoinChannel(c, 1)
    \/ \E c \in Conns \ {NumConns} : ClientBroadcast(c, 1)
    \/ \E c \in Conns : RelayFrame(c)
    \/ Drain

OrderSpec == Init /\ [][OrderNext]_vars

\* ------------------------------------------------- vocabulary of the claims
RegisteredIn(cl, c) == \E i \in 1..Len(cl) : cl[i].ws = c
EntryIn(cl, c) == cl[CHOOSE i \in 1..Len(cl) : cl[i].ws = c]
\* connectionsFor(channelId) of a Map
SubscribersIn(cl, X) ==
    {c \in Conns : RegisteredIn(cl, c) /\ X \in EntryIn(cl, c).channels}
Registered(c) == RegisteredIn(clients, c)
EntryOf(c) == EntryIn(clients, c)
SubscribersOf(X) == SubscribersIn(clients, X)
\* connectionsFor(userId)
ConnectionsOfUser(u) == {c \in Conns : Registered(c) /\ EntryOf(c).userId = u}
IsOpen(c) == readyState[c] = "OPEN"
\* the connections a set of written frames goes to
To(frames) == {f.to : f \in frames}
NewMessageFramesTo(S, d) ==
    {[to |-> c, frame |-> [type |-> "new_message", message |-> d]] : c \in S}

\* C1: in every reachable state, a new_message with channelId = X that a
\* connection s can send is written to exactly the registered, open connections
\* subscribed to X other than s, each frame carrying the message; no connection
\* outside that set gets a frame.
C1_ChannelFanout ==
    \A s \in Conns : Receiving(s) =>
        \A X \in Channels, r \in RecipientArgs, d \in DataArgs :
            NewMessageOut(s, X, r, d).frames =
                NewMessageFramesTo({c \in SubscribersOf(X) : IsOpen(c) /\ c # s}, d)

\* C1 witness: sockets 1 and 2 on channel 1, socket 3 on channel 2 only, all
\* open and claiming user 1; one frame was written, to socket 2 (no DM authored
\* by user 2 gives that: it would reach both other sockets or none).
C1_Witness ==
    /\ Len(clients) = 3
    /\ \A c \in Conns : IsOpen(c) /\ EntryOf(c).userId = 1
    /\ SubscribersOf(1) = {1, 2}
    /\ SubscribersOf(2) = {3}
    /\ sent = NewMessageFramesTo({2}, Data(2))

\* C2: a new_message without channelId, with recipientId = r and a message
\* authored by a, is written to exactly the registered, open connections
\* claiming r or a, other than the sender (other sockets of the sender's user
\* included).
C2_DirectFanout ==
    \A s \in Conns : Receiving(s) =>
        \A ch \in {Null, 0}, r \in Users, a \in Users :
            NewMessageOut(s, ch, r, Data(a)).frames =
                NewMessageFramesTo(
                    {c \in ConnectionsOfUser(r) \cup ConnectionsOfUser(a) :
                         IsOpen(c) /\ c # s}, Data(a))

\* C2 witness: user 1 on sockets 1 and 3, user 2 on socket 2, nobody in any
\* channel; a message authored by user 1 reached sockets 2 and 3.
C2_Witness ==
    /\ ConnectionsOfUser(1) = {1, 3}
    /\ ConnectionsOfUser(2) = {2}
    /\ \A X \in Channels : SubscribersOf(X) = {}
    /\ \A c \in Conns : IsOpen(c)
    /\ sent = NewMessageFramesTo({2, 3}, Data(1))

\* C3: join_channel(X) on an authenticated connection puts it among X's
\* subscribers, a leave_channel(X) after it takes it out again, and the close
\* event takes it out of every channel's subscribers.
C3_SubscribeUnsubscribe ==
    \A c \in Conns : (Receiving(c) /\ Registered(c)) =>
        /\ \A X \in Channels :
              LET joined == OnJoinChannel(clients, c, X)
              IN  /\ c \in SubscribersIn(joined, X)
                  /\ c \notin SubscribersIn(OnLeaveChannel(joined, c, X), X)
        /\ \A X \in Channels : c \notin SubscribersIn(OnClose(clients, c), X)

\* C3 witness: a socket subscribed to channel 1 and not to channel 2, beside a
\* socket that has closed and left, while another one is still subscribed.
C3_Witness ==
    /\ readyState[1] = "CLOSED"
    /\ \A X \in Channels : 1 \notin SubscribersOf(X)
    /\ 2 \in SubscribersOf(1) \ SubscribersOf(2)
    /\ 3 \in SubscribersOf(2)

\* C4: once a connection c is out of the Map or its transport is not open, a
\* new_message or typing event of another connection writes nothing to c,
\* reaches every other eligible connection, and ends in the catch block only
\* when the frame itself lacks its data.
C4_ClosedPeerOnlyShrinks ==
    \A c \in Conns : (~Registered(c) \/ ~IsOpen(c)) =>
        \A s \in Conns \ {c} : Receiving(s) =>
            /\ \A X \in Channels, r \in RecipientArgs, d \in DataArgs :
                  LET out == NewMessageOut(s, X, r, d)
                  IN  /\ To(out.frames) =
                             {e \in SubscribersOf(X) \ {c, s} : IsOpen(e)}
                      /\ ~out.threw
            /\ \A ch \in {Null, 0}, r \in Users, d \in DataArgs :
                  LET out == NewMessageOut(s, ch, r, d)
                  IN  /\ c \notin To(out.frames)
                      /\ out.threw => ~d.defined
                      /\ d.defined =>
                            To(out.frames) =
                                {e \in (ConnectionsOfUser(r)
                                          \cup ConnectionsOfUser(d.authorId))
                                         \ {c, s} : IsOpen(e)}
            /\ \A X \in Channels, u \in Users, t \in BOOLEAN :
                  LET out == TypingOut(s, X, u, t)
                  IN  /\ To(out.frames) =
                             {e \in SubscribersOf(X) \ {c, s} : IsOpen(e)}
                      /\ ~out.threw

\* C4 witness: sockets 1, 2, 3 all on channel 1; socket 2's transport is down
\* but its close event has not run; a frame went to socket 3 alone.
C4_Witness ==
    /\ SubscribersOf(1) = {1, 2, 3}
    /\ readyState = [c \in Conns |-> IF c = 2 THEN "CLOSING" ELSE "OPEN"]
    /\ To(sent) = {3}

\* C5: a second join_channel(X), a second leave_channel(X) or a second
\* unregistration right after the first leaves the Map as the first left it.
C5_Idempotence ==
    \A c \in Conns : Receiving(c) =>
        /\ \A X \in Channels :
              /\ OnJoinChannel(OnJoinChannel(clients, c, X), c, X)
                    = OnJoinChannel(clients, c, X)
              /\ OnLeaveChannel(OnLeaveChannel(clients, c, X), c, X)
                    = OnLeaveChannel(clients, c, X)
        /\ OnClose(OnClose(clients, c), c) = OnClose(clients, c)

\* C5 witness: a socket that joined both channels, beside one that has closed.
C5_Witness ==
    /\ \E c \in Conns : Registered(c) /\ EntryOf(c).channels = Channels
    /\ \E c \in Conns : readyState[c] = "CLOSED"

\* ------------------------------------------------ the store's claims
Stored(id) == RowOf(messages, id)
Range(seq) == {seq[i] : i \in 1..Len(seq)}
NonDecreasingCreatedAt(seq) ==
    \A i, j \in 1..Len(seq) :
        i < j => Stored(seq[i]).createdAt <= Stored(seq[j]).createdAt
\* a one-word content matches a one-word query when it is that word
Matches(content, query) == content = query

\* C6: every stored message has exactly one of channelId and recipientId set
\* (a request with both or with neither is rejected and nothing is persisted).
C6_ExactlyOneTarget ==
    \A i \in 1..Len(messages) :
        (messages[i].channelId = Null) # (messages[i].recipientId = Null)

\* C7: getThread(rootId) answers exactly the messages whose parentMessageId is
\* rootId, in non-decreasing createdAt order, never the message rootId itself,
\* and the empty sequence when there is no reply or no such root.
C7_ThreadIsTheReplies ==
    response.op = "getMessageThread" =>
        /\ response.status = 200
        /\ Range(response.rows) =
               {id \in IdsOf(messages) :
                    Stored(id).parentMessageId = response.parentId}
        /\ Len(response.rows) = Cardinality(Range(response.rows))
        /\ NonDecreasingCreatedAt(response.rows)
        /\ response.parentId \notin Range(response.rows)

\* C8: getDirectHistory(A, B) answers the direct messages (no channelId) sent
\* from A to B or from B to A, and only those, in ascending createdAt order; a
\* direct message from A to B that was created is in it.
C8_DirectHistory ==
    response.op = "getDirectMessages" =>
        /\ Range(response.rows) =
               {id \in IdsOf(messages) :
                    /\ Stored(id).channelId = Null
                    /\ \/ /\ Stored(id).authorId = response.userId1
                          /\ Stored(id).recipientId = response.userId2
                       \/ /\ Stored(id).authorId = response.userId2
                          /\ Stored(id).recipientId = response.userId1}
        /\ NonDecreasingCreatedAt(response.rows)

\* C9: getChannelHistory(channelId, limit) answers at most limit entries, all
\* of the requested channel, in non-decreasing createdAt order, and every
\* message of the channel when the channel holds no more than limit.
C9_ChannelHistory ==
    response.op = "getChannelMessages" =>
        LET inChannel == {id \in IdsOf(messages) :
                              Stored(id).channelId = response.channelId}
        IN  /\ Len(response.rows) <= response.limit
            /\ Len(response.rows) = Cardinality(Range(response.rows))
            /\ Range(response.rows) \subseteq inChannel
            /\ NonDecreasingCreatedAt(response.rows)
            /\ Cardinality(inChannel) <= response.limit =>
                   Range(response.rows) = inChannel

\* C9 witness: channel 1 holds a message and a reply to it, channel 2 holds a
\* message; the history of channel 1 with limit 1 is answered with one entry.
C9_Witness ==
    /\ response.op = "getChannelMessages"
    /\ response.channelId = 1
    /\ response.limit = 1
    /\ Len(response.rows) = 1
    /\ \E a, b, c \in IdsOf(messages) :
          /\ Stored(a).channelId = 1 /\ Stored(a).parentMessageId = Null
          /\ Stored(b).channelId = 1 /\ Stored(b).parentMessageId = a /\ b # a
          /\ Stored(c).channelId = 2

\* C10: every message search(query, channelId) answers matches the query and,
\* when channelId is given, is of that channel; the answer is empty when no
\* stored message matches.
C10_ScopedSearch ==
    response.op = "searchMessages" =>
        /\ response.status = 200
        /\ \A id \in Range(response.rows) :
              /\ Matches(Stored(id).content, response.query)
              /\ Truthy(response.channelId) =>
                     Stored(id).channelId = response.channelId
        /\ (\A id \in IdsOf(messages) :
                ~Matches(Stored(id).content, response.query)) =>
               response.rows = <<>>

\* ------------------------------------------- the relay's event handling
\* the typing frames a claim expects the connections of S to get
TypingFramesTo(S, u, X, t) ==
    {[to |-> c,
      frame |-> [type |-> "typing", userId |-> u, channelId |-> X,
                 isTyping |-> t]] : c \in S}

\* C11: a second auth(userId') on a registered connection leaves it registered
\* with identity userId' and with the subscription set it had before.
C11_ReauthKeepsSubscriptions ==
    \A c \in Conns : (Receiving(c) /\ Registered(c)) =>
        \A u \in Users :
            LET after == OnAuth(clients, c, u)
            IN  /\ RegisteredIn(after, c)
                /\ EntryIn(after, c).userId = u
                /\ EntryIn(after, c).channels = EntryOf(c).channels

\* C12: join_channel and leave_channel on a connection that is not in the Map
\* leave the Map as it is, and an auth that follows registers the connection
\* with an empty subscription set.
C12_JoinLeaveBeforeAuthDropped ==
    \A c \in Conns : (Receiving(c) /\ ~Registered(c)) =>
        \A X \in Channels :
            /\ OnJoinChannel(clients, c, X) = clients
            /\ OnLeaveChannel(clients, c, X) = clients
            /\ \A u \in Users :
                  /\ EntryIn(OnAuth(OnJoinChannel(clients, c, X), c, u), c).channels
                        = {}
                  /\ EntryIn(OnAuth(OnLeaveChannel(clients, c, X), c, u), c).channels
                        = {}

\* C12 witness: socket 3 is open and has not sent auth while sockets 1 and 2
\* are registered and subscribed to channel 1; no handler run is pending.
C12_Witness ==
    /\ Receiving(3)
    /\ ~Registered(3)
    /\ Len(clients) = 2
    /\ SubscribersOf(1) = {1, 2}

\* C13: a typing event of a connection that is not in the Map writes no frame.
C13_TypingBeforeAuthDropped ==
    \A s \in Conns : (Receiving(s) /\ ~Registered(s)) =>
        \A X \in Channels, u \in Users, t \in BOOLEAN :
            TypingOut(s, X, u, t).frames = {}

\* C14: a typing(X, u, t) event of connection s is written to exactly the
\* registered, open connections subscribed to X other than s, and every frame
\* carries X, u and t as they came in.
C14_TypingFanout ==
    \A s \in Conns : Receiving(s) =>
        \A X \in Channels, u \in Users, t \in BOOLEAN :
            TypingOut(s, X, u, t).frames =
                TypingFramesTo({c \in SubscribersOf(X) : IsOpen(c) /\ c # s},
                               u, X, t)

\* C14 witness: sockets 1 and 2 on channel 1, socket 3 on channel 2 only, all
\* open; a "stopped typing" frame of user 2 in channel 1 went to socket 2 alone.
C14_Witness ==
    /\ SubscribersOf(1) = {1, 2}
    /\ SubscribersOf(2) = {3}
    /\ \A c \in Conns : IsOpen(c)
    /\ sent = TypingFramesTo({2}, 2, 1, FALSE)

C18_MalformedFrameDropped ==
    \A s \in Conns : Receiving(s) =>
        \A ch \in ChannelArgs, r \in RecipientArgs :
            NewMessageOut(s, ch, r, NoData).frames = {}

\* C19: in the answer of getChannelHistory an entry that is a reply (it has a
\* parentMessageId, and is not its own parent, the case of C7) carries an empty
\* replies list.
C19_OnlyRootsCarryReplies ==
    response.op = "getChannelMessages" =>
        \A i \in 1..Len(response.rows) :
            LET parent == Stored(response.rows[i]).parentMessageId
            IN  (parent # Null /\ parent # response.rows[i]) =>
                    response.replies[i] = <<>>

\* C15: when the write of a new_message or typing frame to one connection f
\* raises, every other registered, open subscriber of the channel (the sender
\* apart) still gets its frame.
C15_FailureIsolation ==
    \A s \in Conns : Receiving(s) =>
        \A X \in Channels, f \in Conns :
            LET others == {c \in SubscribersOf(X) : IsOpen(c) /\ c # s} \ {f}
            IN  /\ \A a \in Users :
                      NewMessageFramesTo(others, Data(a)) \subseteq
                          NewMessageRaisingOut(s, X, Data(a), f).frames
                /\ \A u \in Users, t \in BOOLEAN :
                      TypingFramesTo(others, u, X, t) \subseteq
                          TypingRaisingOut(s, X, u, t, f).frames

\* C20: after a handler run in which the write to a connection raised, that
\* connection is out of the Map.
C20_FailedWriteUnregisters ==
    raised # Null => ~Registered(raised)

\* the new_message frames in a socket's inbox that carry message id
FramesCarrying(c, id) ==
    {i \in 1..Len(inbox[c]) : inbox[c][i].message.id = id}

\* C17: for every message created through the send flow, every connection has
\* received at most one new_message frame carrying it.
C17_AtMostOnceRelay ==
    \A c \in Conns : \A id \in IdsOf(messages) :
        Cardinality(FramesCarrying(c, id)) <= 1

\* ------------------------------------------- effects of the relay's events
\* C21: a step that changes the Map (an auth, join_channel or leave_channel
\* that takes effect, or a close) writes no frame and does not end in the catch
\* block, and every frame the relay ever writes is a new_message or typing
\* frame (no echo of another kind).
C21_NoOutboundEcho ==
    [][/\ clients' # clients => (sent' = {} /\ ~caught')
       /\ \A f \in sent' : f.frame.type \in {"new_message", "typing"}]_vars

\* C21 witness: sockets 1 and 2 are registered and subscribed to both
\* channels, socket 3 is not registered, and nothing is written.
C21_Witness ==
    /\ Len(clients) = 2
    /\ \A c \in {1, 2} : Registered(c) /\ EntryOf(c).channels = Channels
    /\ sent = {}
    /\ ~caught

\* C25: in every step, a connection that enters the Map or changes its claimed
\* identity (an auth) has an empty subscription set afterwards, and a channel X
\* that is new in the subscription set of c got there by c's own
\* join_channel(X), the step changing nothing else in the Map.
C25_OnlyOwnJoinsSubscribe ==
    [][\A c \in Conns : RegisteredIn(clients', c) =>
           LET after == EntryIn(clients', c)
               before == IF Registered(c) THEN EntryOf(c).channels ELSE {}
           IN  /\ (~Registered(c) \/ EntryOf(c).userId # after.userId) =>
                      after.channels = {}
               /\ \A X \in after.channels \ before :
                      /\ Registered(c)
                      /\ clients' = OnJoinChannel(clients, c, X)]_vars

\* C25 witness: socket 1 is subscribed to channel 1 only and socket 2 to
\* channel 2 only; a new_message was just written to socket 2 alone.
C25_Witness ==
    /\ SubscribersOf(1) = {1}
    /\ SubscribersOf(2) = {2}
    /\ \E a \in Users : sent = NewMessageFramesTo({2}, Data(a))

\* C26: the connections a DM goes to are those of recipientId and of
\* data.authorId, whatever the sender claims to be: for a sender that is not in
\* the Map or claims a user other than the author a, the frame goes to every
\* other open connection of r and a; and had the sender claimed any other
\* identity, the same frames would have been written.
C26_DmIgnoresSenderIdentity ==
    \A s \in Conns : Receiving(s) =>
        \A r \in Users, a \in Users :
            /\ (~Registered(s) \/ EntryOf(s).userId # a) =>
                   To(NewMessageOut(s, Null, r, Data(a)).frames) =
                       {c \in ConnectionsOfUser(r) \cup ConnectionsOfUser(a) :
                            IsOpen(c) /\ c # s}
            /\ \A u \in Users :
                   HandleNewMessage(OnAuth(clients, s, u), readyState, s,
                                    Null, r, Data(a))
                       = NewMessageOut(s, Null, r, Data(a))

\* C26 witness: socket 1 claims user 1, socket 2 claims user 2, socket 3 never
\* sent auth; a message authored by user 1 was written to sockets 1 and 2, so
\* its sender is socket 3.
C26_Witness ==
    /\ ConnectionsOfUser(1) = {1}
    /\ ConnectionsOfUser(2) = {2}
    /\ ~Registered(3)
    /\ sent = NewMessageFramesTo({1, 2}, Data(1))

\* C27: a new_message with channelId = X of a connection that is not in the
\* Map, or is in it without X in its subscription set, is written to every
\* registered, open subscriber of X.
C27_ChannelIgnoresSenderState ==
    \A s \in Conns : Receiving(s) =>
        \A X \in Channels :
            (~Registered(s) \/ X \notin EntryOf(s).channels) =>
                \A d \in DataArgs :
                    To(NewMessageOut(s, X, Null, d).frames) =
                        {c \in SubscribersOf(X) : IsOpen(c)}

\* C27 witness: the three sockets claim user 1 and socket 1 alone is subscribed
\* to channel 2; a message authored by user 2 was written to socket 1 alone (a
\* DM would have reached two sockets or none), so it came from socket 2 or 3
\* through the channel branch.
C27_Witness ==
    /\ \A c \in Conns : Registered(c) /\ EntryOf(c).userId = 1 /\ IsOpen(c)
    /\ SubscribersOf(2) = {1}
    /\ sent = NewMessageFramesTo({1}, Data(2))

\* C30: a new_message with a channelId X and a recipientId is handled as the
\* same frame without recipientId (open subscribers of X other than the sender,
\* nobody else); with channelId absent, null or 0 and recipientId absent or
\* null nothing is written and the catch block does not run.
C30_BranchSelection ==
    \A s \in Conns : Receiving(s) =>
        \A d \in DataArgs :
            /\ \A X \in Channels, r \in Users :
                  /\ NewMessageOut(s, X, r, d) = NewMessageOut(s, X, Null, d)
                  /\ To(NewMessageOut(s, X, r, d).frames) \subseteq SubscribersOf(X)
            /\ \A ch \in {Null, 0} :
                  NewMessageOut(s, ch, Null, d) = [frames |-> {}, threw |-> FALSE]

\* C30 witness: sockets 1 and 2 claim user 1 and are on channel 1, socket 3
\* claims user 2 and is on no channel; a message authored by user 2 was written
\* to one of the subscribers and not to socket 3 (sent by the other subscriber,
\* as a DM to either user it would have reached socket 3).
C30_Witness ==
    /\ ConnectionsOfUser(1) = {1, 2}
    /\ ConnectionsOfUser(2) = {3}
    /\ SubscribersOf(1) = {1, 2}
    /\ SubscribersOf(2) = {}
    /\ IsOpen(3)
    /\ \E c \in {1, 2} : sent = NewMessageFramesTo({c}, Data(2))

C29_RepliesByParentOnly ==
    response.op = "getChannelMessages" =>
        \A i \in 1..Len(response.rows) :
            /\ Range(response.replies[i]) =
                   {id \in IdsOf(messages) :
                        Stored(id).parentMessageId = response.rows[i]}
            /\ Len(response.replies[i]) = Cardinality(Range(response.replies[i]))
            /\ NonDecreasingCreatedAt(response.replies[i])

\* C29 witness: the history with limit 1 has one entry, which carries two
\* replies: one of the entry's channel and a direct message.
C29_Witness ==
    /\ response.op = "getChannelMessages"
    /\ response.limit = 1
    /\ Len(response.rows) = 1
    /\ Len(response.replies[1]) = 2
    /\ \E a, b \in Range(response.replies[1]) :
          /\ a # response.rows[1]
          /\ Stored(a).channelId = response.channelId
          /\ Stored(b).channelId = Null
          /\ Stored(b).recipientId = 2

\* ------------------------------------------------ creation and the relay
\* C23: a step in which POST /api/messages answers (201 or 400) changes neither
\* the sockets nor the Map, writes no frame, and puts nothing in flight to or
\* from any client.
C23_CreateHasNoRelayEffect ==
    [][(response.op = "none" /\ response'.op = "createMessage") =>
           /\ readyState' = readyState
           /\ clients' = clients
           /\ sent' = sent
           /\ caught' = caught
           /\ outbox' = outbox
           /\ inbox' = inbox]_vars

\* C23 witness: a message of channel 1 is stored and its request is answered,
\* socket 1 is an open subscriber of channel 1, and no frame carrying the
\* message is written, in flight or delivered.
C23_Witness ==
    /\ Len(messages) = 1
    /\ messages[1].channelId = 1
    /\ response = NoResponse
    /\ 1 \in SubscribersOf(1)
    /\ IsOpen(1)
    /\ sent = {}
    /\ \A c \in Conns : outbox[c] = <<>> /\ inbox[c] = <<>>

C24_CreateNeverWaits ==
    [][/\ Len(messages') > Len(messages) =>
              /\ response' = [op |-> "createMessage", status |-> 201,
                              id |-> Len(messages')]
              /\ analysis'[Len(messages')] = "pending"
       /\ (\E id \in 1..Len(analysis) : analysis'[id] # analysis[id]) =>
              /\ messages' = messages
              /\ response' = response]_vars

\* C24 witness: the analysis of message 1 has failed, that of message 2 never
\* answered, and message 3 was just created and answered 201 with its own
\* analysis pending.
C24_Witness ==
    /\ Len(messages) = 3
    /\ analysis = <<"failed", "pending", "pending">>
    /\ response = [op |-> "createMessage", status |-> 201, id |-> 3]

====
